---- MODULE Spec2Model ----
(***************************************************************************)
(* Controller lobby client: the session-state reducer (useControllers.ts), *)
(* the websocket connection manager (useWebSocket.ts) and the intent      *)
(* dispatcher (useControllers.ts dispatch + lib/api request).             *)
(***************************************************************************)
EXTENDS Integers, Sequences, FiniteSets, TLC

VARIABLES
    connected,      \* useReducer state.connected : Controller[]
    ready,          \* useReducer state.ready     : ReadyController[]
    phase,          \* App component: "init" (rendered, effects not run), "mounted", "unmounted"
    renderError,    \* an exception escaped the reducer or the render that follows it
    socks,          \* readyState of every WebSocket created by connect()
    wsRef,          \* wsRef.current: the tracked socket, 0 for null
    wsConnected,    \* useState `connected` of useWebSocket
    timers,         \* pending setTimeout(connect, ...) of each socket's onclose: ms left, -1 if none
    reconnectTimer, \* reconnectTimer.current: the socket whose onclose set the stored handle, 0 for undefined
    requests,       \* remote requests issued by dispatch, in issue order
    audios,         \* the Audio elements of playSound that are referenced or audible
    currentAudio,   \* currentAudio of lib/sounds: index into audios, 0 for null
    bluetoothDevices,  \* useState bluetoothDevices of useWebSocket
    bluetoothScanning, \* useState bluetoothScanning of useWebSocket
    scanning,       \* useState scanning of RescanButton
    scanCalls,      \* scan requests of RescanButton.handleScan in flight, in issue order
    serviceScan,    \* the device service has a bluetooth scan in progress
    started,        \* history: the cues the last step started (snd_src of each playSound call)
    scheduled,      \* history: the setTimeout calls the last step made
    folded,         \* history: the left fold of controllerReducer over the actions handed to rawDispatch, in order
    prevState,      \* history: the reducer state before the last step
    lastAction,     \* history: the action the last step handed to controllerReducer
    lastOp          \* history: the last step taken

sessionVars == <<connected, ready>>
connVars == <<socks, wsRef, wsConnected, timers, reconnectTimer>>
soundVars == <<audios, currentAudio>>
bluetoothVars == <<bluetoothDevices, bluetoothScanning, scanning, scanCalls, serviceScan>>
vars == <<connected, ready, phase, renderError, socks, wsRef, wsConnected, timers,
          reconnectTimer, requests, audios, currentAudio, bluetoothDevices,
          bluetoothScanning, scanning, scanCalls, serviceScan, started, scheduled,
          folded, prevState, lastAction, lastOp>>

-----------------------------------------------------------------------------
(* Data domains.                                                           *)

Ids == {"A", "B"}

\* battery_percent values carried by battery_update events: 42, 64, ...
MaxPercentKinds == 1
Percents == {20 + 22 * k : k \in 1..MaxPercentKinds}

\* slot_index values carried by controller_ready events (0 .. MaxSlot)
MaxSlot == 1
Slots == 0..MaxSlot

\* JavaScript `undefined`, as read from a property an object does not have
Undefined == "undefined"

\* Controller payloads (types Controller): battery_percent is optional
ControllerPayloads == {[unique_id |-> i, snd_src |-> "s1.wav"] : i \in Ids}

\* ReadyController payloads: a Controller plus slot_index
\* (the payload of slot 0 names the cue the connected payload names, the
\* payloads of the other slots another one)
SlotSound(k) == IF k = 0 THEN "s1.wav" ELSE "s2.wav"
ReadyPayloads ==
    {[unique_id |-> i, snd_src |-> SlotSound(k), slot_index |-> k] : i \in Ids, k \in Slots}

-----------------------------------------------------------------------------
(* Object helpers.                                                         *)

\* c.unique_id, read the way JavaScript reads a property
UniqueId(c) == IF "unique_id" \in DOMAIN c THEN c.unique_id ELSE Undefined

\* const { slot_index: _, ...base } = removed
StripSlot(r) == [f \in (DOMAIN r) \ {"slot_index"} |-> r[f]]

\* { ...c, battery_percent: p }
WithBattery(c, p) ==
    [f \in (DOMAIN c) \cup {"battery_percent"} |->
        IF f = "battery_percent" THEN p ELSE c[f]]

\* list.some((c) => c.unique_id === id)
SomeId(list, id) == \E i \in DOMAIN list : UniqueId(list[i]) = id

\* list.filter((c) => c.unique_id !== id)
FilterOutId(list, id) ==
    LET Keep(c) == UniqueId(c) # id IN SelectSeq(list, Keep)

\* list.find((c) => c.unique_id === id), defined when SomeId(list, id)
FindId(list, id) ==
    list[CHOOSE i \in DOMAIN list :
            /\ UniqueId(list[i]) = id
            /\ \A j \in DOMAIN list : UniqueId(list[j]) = id => i <= j]

\* list.map((c) => c.unique_id === id ? { ...c, battery_percent: p } : c)
MapBattery(list, id, p) ==
    [i \in DOMAIN list |->
        IF UniqueId(list[i]) = id THEN WithBattery(list[i], p) ELSE list[i]]

-----------------------------------------------------------------------------
(* controllerReducer, one operator per case of the switch.                 *)

\* (mutant) SET_STATE that merges: entries the snapshot does not name survive
ReduceSetState_Merge(state, action) ==
    LET AbsentC(c) == ~SomeId(action.connected, UniqueId(c))
        AbsentR(r) == ~SomeId(action.ready, UniqueId(r))
    IN  [connected |-> action.connected \o SelectSeq(state.connected, AbsentC),
         ready     |-> action.ready \o SelectSeq(state.ready, AbsentR)]

ReduceSetState(state, action) ==
    [connected |-> action.connected, ready |-> action.ready]

\* (mutant) CONTROLLER_CONNECTED without the duplicate check
ReduceConnected_NoCheck(state, action) ==
    [state EXCEPT !.connected = Append(@, action.controller)]

ReduceConnected(state, action) ==
    IF SomeId(state.connected, UniqueId(action.controller))
    THEN state
    ELSE [state EXCEPT !.connected = Append(@, action.controller)]

\* (mutant) CONTROLLER_DISCONNECTED that filters `connected` only
ReduceDisconnected_ConnectedOnly(state, action) ==
    [connected |-> FilterOutId(state.connected, action.unique_id),
     ready     |-> state.ready]

ReduceDisconnected(state, action) ==
    [connected |-> FilterOutId(state.connected, action.unique_id),
     ready     |-> FilterOutId(state.ready, action.unique_id)]

\* (mutant) CONTROLLER_READY that replaces the entry of a controller that is
\* ready already by the new payload
ReduceReady_Replaces(state, action) ==
    [connected |-> FilterOutId(state.connected, UniqueId(action.controller)),
     ready     |-> Append(FilterOutId(state.ready, UniqueId(action.controller)),
                          action.controller)]

ReduceReady(state, action) ==
    LET remaining    == FilterOutId(state.connected, UniqueId(action.controller))
        alreadyReady == SomeId(state.ready, UniqueId(action.controller))
    IN  IF alreadyReady
        THEN state
        ELSE [connected |-> remaining, ready |-> Append(state.ready, action.controller)]

\* (mutant) CONTROLLER_UNREADY that copies the entry into `connected` and
\* leaves it in `ready`
ReduceUnready_Copies(state, action) ==
    IF ~SomeId(state.ready, action.unique_id)
    THEN state
    ELSE [connected |-> Append(state.connected,
                               StripSlot(FindId(state.ready, action.unique_id))),
          ready     |-> state.ready]

\* (mutant) CONTROLLER_UNREADY that drops the entry instead of moving it
ReduceUnready_Discards(state, action) ==
    IF ~SomeId(state.ready, action.unique_id)
    THEN state
    ELSE [connected |-> state.connected,
          ready     |-> FilterOutId(state.ready, action.unique_id)]

\* (mutant) CONTROLLER_UNREADY that moves the entry with its slot_index
ReduceUnready_KeepSlot(state, action) ==
    IF ~SomeId(state.ready, action.unique_id)
    THEN state
    ELSE [connected |-> Append(state.connected, FindId(state.ready, action.unique_id)),
          ready     |-> FilterOutId(state.ready, action.unique_id)]

ReduceUnready(state, action) ==
    IF ~SomeId(state.ready, action.unique_id)
    THEN state
    ELSE LET removed == FindId(state.ready, action.unique_id)
             base    == StripSlot(removed)
         IN  [connected |-> Append(state.connected, base),
              ready     |-> FilterOutId(state.ready, action.unique_id)]

\* (mutant) BATTERY_UPDATE that maps `connected` only
ReduceBattery_ConnectedOnly(state, action) ==
    [connected |-> MapBattery(state.connected, action.unique_id, action.battery_percent),
     ready     |-> state.ready]

ReduceBattery(state, action) ==
    [connected |-> MapBattery(state.connected, action.unique_id, action.battery_percent),
     ready     |-> MapBattery(state.ready, action.unique_id, action.battery_percent)]

\* (mutant) a reducer whose default case throws instead of returning state
controllerReducer_Strict(state, action) ==
    CASE action.type = "SET_STATE"               -> ReduceSetState(state, action)
      [] action.type = "CONTROLLER_CONNECTED"    -> ReduceConnected(state, action)
      [] action.type = "CONTROLLER_DISCONNECTED" -> ReduceDisconnected(state, action)
      [] action.type = "CONTROLLER_READY"        -> ReduceReady(state, action)
      [] action.type = "CONTROLLER_UNREADY"      -> ReduceUnready(state, action)
      [] action.type = "BATTERY_UPDATE"          -> ReduceBattery(state, action)
      [] OTHER                                   -> [thrown |-> "unknown action"]

controllerReducer(state, action) ==
    CASE action.type = "SET_STATE"               -> ReduceSetState(state, action)
      [] action.type = "CONTROLLER_CONNECTED"    -> ReduceConnected(state, action)
      [] action.type = "CONTROLLER_DISCONNECTED" -> ReduceDisconnected(state, action)
      [] action.type = "CONTROLLER_READY"        -> ReduceReady(state, action)
      [] action.type = "CONTROLLER_UNREADY"      -> ReduceUnready(state, action)
      [] action.type = "BATTERY_UPDATE"          -> ReduceBattery(state, action)
      [] OTHER                                   -> state

-----------------------------------------------------------------------------
(* Reducer actions (type ControllerAction) built from well-formed events.  *)

\* state_snapshot payloads: each id is absent, connected or ready; the lists
\* are duplicate-free and disjoint, as the device service's snapshots are.
SnapConnected(S) ==
    LET a == IF "A" \in S THEN <<[unique_id |-> "A", snd_src |-> "s1.wav"]>> ELSE << >>
        b == IF "B" \in S THEN <<[unique_id |-> "B", snd_src |-> "s2.wav"]>> ELSE << >>
    IN  a \o b

SnapReady(S) ==
    LET b == IF "B" \in S
             THEN <<[unique_id |-> "B", snd_src |-> "s2.wav", slot_index |-> 0]>>
             ELSE << >>
        a == IF "A" \in S
             THEN <<[unique_id |-> "A", snd_src |-> "s1.wav", battery_percent |-> 42,
                     slot_index |-> 1]>>
             ELSE << >>
    IN  b \o a

Snapshots ==
    {[connected |-> SnapConnected(p[1]), ready |-> SnapReady(p[2])] :
        p \in {q \in (SUBSET Ids) \X (SUBSET Ids) : q[1] \cap q[2] = {}}}

SetStateActions ==
    {[type |-> "SET_STATE", connected |-> s.connected, ready |-> s.ready] : s \in Snapshots}
ConnectedActions ==
    {[type |-> "CONTROLLER_CONNECTED", controller |-> c] : c \in ControllerPayloads}
DisconnectedActions ==
    {[type |-> "CONTROLLER_DISCONNECTED", unique_id |-> i] : i \in Ids}
ReadyActions ==
    {[type |-> "CONTROLLER_READY", controller |-> c] : c \in ReadyPayloads}
UnreadyActions ==
    {[type |-> "CONTROLLER_UNREADY", unique_id |-> i] : i \in Ids}
BatteryActions ==
    {[type |-> "BATTERY_UPDATE", unique_id |-> i, battery_percent |-> p] :
        i \in Ids, p \in Percents}

\* events that name a controller no event has introduced
StrangerActions ==
    {[type |-> "CONTROLLER_DISCONNECTED", unique_id |-> "Z"],
     [type |-> "CONTROLLER_UNREADY", unique_id |-> "Z"]}
        \cup {[type |-> "BATTERY_UPDATE", unique_id |-> "Z", battery_percent |-> p] :
                p \in Percents}

\* actions of type ControllerAction that are no events, and an action of no
\* known type
OtherActions ==
    {[type |-> "REASSIGN"],
     [type |-> "APPLY_CONFIG"],
     [type |-> "APPLY_CONFIG", emulatorTarget |-> "dolphin"],
     [type |-> "TOGGLE_VIEW"]}

EventActions ==
    SetStateActions \cup ConnectedActions \cup DisconnectedActions
        \cup ReadyActions \cup UnreadyActions \cup BatteryActions

State == [connected |-> connected, ready |-> ready]

NoAction == [type |-> "NONE"]

-----------------------------------------------------------------------------------------------------------------------------------
(* useWebSocket: the connection manager.                                   *)

\* sockets a run may create
MaxSockets == 4
SockIds == 1..MaxSockets

RECONNECT_DELAY == 2000
\* granularity of the virtual clock
TickMs == RECONNECT_DELAY \div 2

NoTimer == -1

Conn ==
    [socks |-> socks, wsRef |-> wsRef, wsConnected |-> wsConnected,
     timers |-> timers, reconnectTimer |-> reconnectTimer, scheduled |-> 0]

NumCreated(sk) == Cardinality({s \in SockIds : sk[s] # "NONE"})

\* setConnected(v): a state update of an unmounted component is dropped
setConnected(c, v, ph) == IF ph = "unmounted" THEN c ELSE [c EXCEPT !.wsConnected = v]

\* ws.close(): a connecting or open socket starts closing, else nothing
wsClose(c, s) ==
    IF c.socks[s] \in {"CONNECTING", "OPEN"} THEN [c EXCEPT !.socks[s] = "CLOSING"] ELSE c

\* connect(): returns at once when the tracked socket is OPEN, else
\* new WebSocket(WS_URL) and wsRef.current = ws
connect(c) ==
    IF c.wsRef # 0 /\ c.socks[c.wsRef] = "OPEN"
    THEN c
    ELSE LET ws == NumCreated(c.socks) + 1
         IN  [c EXCEPT !.socks[ws] = "CONNECTING", !.wsRef = ws]

\* connect() can run within the model's socket budget
CanConnect(c) ==
    \/ c.wsRef # 0 /\ c.socks[c.wsRef] = "OPEN"
    \/ NumCreated(c.socks) < MaxSockets

\* ws.onopen
onopen(c, s, ph) == setConnected(c, TRUE, ph)

\* (mutant) ws.onclose with a maximum retry count: the close of the second
\* socket and of every later one schedules nothing
onclose_MaxRetries(c, s, ph) ==
    IF s >= 2
    THEN [setConnected(c, FALSE, ph) EXCEPT !.wsRef = 0]
    ELSE [setConnected(c, FALSE, ph) EXCEPT
            !.wsRef = 0,
            !.timers[s] = RECONNECT_DELAY,
            !.reconnectTimer = s,
            !.scheduled = @ + 1]

\* ws.onclose: setConnected(false); wsRef.current = null;
\* reconnectTimer.current = setTimeout(connect, RECONNECT_DELAY)
onclose(c, s, ph) ==
    [setConnected(c, FALSE, ph) EXCEPT
        !.wsRef = 0,
        !.timers[s] = RECONNECT_DELAY,
        !.reconnectTimer = s,
        !.scheduled = @ + 1]

\* (mutant) ws.onerror that schedules a reconnect of its own before closing
onerror_Reschedules(c, s) ==
    [wsClose(c, s) EXCEPT
        !.timers[s] = RECONNECT_DELAY,
        !.reconnectTimer = s,
        !.scheduled = @ + 1]

\* ws.onerror: ws.close()
onerror(c, s) == wsClose(c, s)

\* clearTimeout(reconnectTimer.current)
clearTimeout(c) ==
    IF c.reconnectTimer # 0 THEN [c EXCEPT !.timers[c.reconnectTimer] = NoTimer] ELSE c

\* the effect's cleanup: clearTimeout(reconnectTimer.current); wsRef.current?.close()
cleanup(c) ==
    LET c1 == clearTimeout(c)
    IN  IF c1.wsRef # 0 THEN wsClose(c1, c1.wsRef) ELSE c1

\* the connection state the hook reports: `connected` is true, or the
\* tracked socket is being established, or neither
ConnState ==
    IF wsConnected THEN "Connected"
    ELSE IF wsRef # 0 /\ socks[wsRef] = "CONNECTING" THEN "Connecting"
    ELSE "Disconnected"

SetConn(c) ==
    /\ socks' = c.socks
    /\ wsRef' = c.wsRef
    /\ wsConnected' = c.wsConnected
    /\ timers' = c.timers
    /\ reconnectTimer' = c.reconnectTimer
    /\ scheduled' = c.scheduled

\* a step that leaves the connection manager alone
NoConn ==
    /\ UNCHANGED connVars
    /\ scheduled' = 0

\* a step that calls neither playSound nor a setter of the bluetooth projection
NoSound ==
    /\ UNCHANGED soundVars
    /\ started' = << >>

NoBluetooth == UNCHANGED bluetoothVars

Quiet == NoSound /\ NoBluetooth

\* (mutant) a step that does not call the reducer clears the controller sets
\* when it finds the client disconnected
NoReduce_ClearsOffline ==
    /\ connected' = IF wsConnected THEN connected ELSE << >>
    /\ ready' = IF wsConnected THEN ready ELSE << >>
    /\ UNCHANGED folded
    /\ prevState' = State
    /\ lastAction' = NoAction

\* a step that does not call the reducer
NoReduce ==
    /\ UNCHANGED sessionVars
    /\ UNCHANGED folded
    /\ prevState' = State
    /\ lastAction' = NoAction

NoMsg == [parses |-> FALSE, none |-> TRUE]
Op(name, s) == [op |-> name, sock |-> s, msg |-> NoMsg]

Init ==
    /\ connected = << >>
    /\ ready = << >>
    /\ phase = "init"
    /\ renderError = FALSE
    /\ socks = [s \in SockIds |-> "NONE"]
    /\ wsRef = 0
    /\ wsConnected = FALSE
    /\ timers = [s \in SockIds |-> NoTimer]
    /\ reconnectTimer = 0
    /\ requests = << >>
    /\ audios = << >>
    /\ currentAudio = 0
    /\ bluetoothDevices = << >>
    /\ bluetoothScanning = FALSE
    /\ scanning = FALSE
    /\ scanCalls = << >>
    /\ serviceScan = FALSE
    /\ started = << >>
    /\ scheduled = 0
    /\ folded = [connected |-> << >>, ready |-> << >>]
    /\ prevState = [connected |-> << >>, ready |-> << >>]
    /\ lastAction = NoAction
    /\ lastOp = Op("init", 0)

\* useEffect(() => { connect(); ... }, [connect]) on mount
Mount ==
    /\ phase = "init"
    /\ CanConnect(Conn)
    /\ phase' = "mounted"
    /\ SetConn(connect(Conn))
    /\ NoReduce
    /\ lastOp' = Op("mount", 0)
    /\ Quiet
    /\ UNCHANGED <<renderError, requests>>

\* the effect runs again (React re-runs effects: cleanup, then the effect)
EffectRerun ==
    /\ phase = "mounted"
    /\ CanConnect(cleanup(Conn))
    /\ SetConn(connect(cleanup(Conn)))
    /\ NoReduce
    /\ lastOp' = Op("rerun", 0)
    /\ Quiet
    /\ UNCHANGED <<phase, renderError, requests>>

\* teardown(): the component unmounts and the effect's cleanup runs
Unmount ==
    /\ phase = "mounted"
    /\ phase' = "unmounted"
    /\ SetConn(cleanup(Conn))
    /\ NoReduce
    /\ lastOp' = Op("unmount", 0)
    /\ Quiet
    /\ UNCHANGED <<renderError, requests>>

\* the connection of socket s is established: open event
SockOpen(s) ==
    /\ socks[s] = "CONNECTING"
    /\ SetConn(onopen([Conn EXCEPT !.socks[s] = "OPEN"], s, phase))
    /\ NoReduce
    /\ lastOp' = Op("open", s)
    /\ Quiet
    /\ UNCHANGED <<phase, renderError, requests>>

\* socket s is closed (by the peer, or a close() completes): close event
SockClose(s) ==
    /\ socks[s] \in {"OPEN", "CLOSING"}
    /\ SetConn(onclose([Conn EXCEPT !.socks[s] = "CLOSED"], s, phase))
    /\ NoReduce
    /\ lastOp' = Op("close", s)
    /\ Quiet
    /\ UNCHANGED <<phase, renderError, requests>>

\* the connection of socket s fails: error event, then close event
SockError(s) ==
    /\ socks[s] \in {"CONNECTING", "OPEN", "CLOSING"}
    /\ SetConn(onclose(onerror([Conn EXCEPT !.socks[s] = "CLOSED"], s), s, phase))
    /\ NoReduce
    /\ lastOp' = Op("error", s)
    /\ Quiet
    /\ UNCHANGED <<phase, renderError, requests>>

\* time passes: every pending timer gets TickMs closer to firing
TimerTick ==
    /\ \E s \in SockIds : timers[s] > 0
    /\ \A s \in SockIds : timers[s] # 0
    /\ timers' = [s \in SockIds |->
                    IF timers[s] > 0
                    THEN (IF timers[s] > TickMs THEN timers[s] - TickMs ELSE 0)
                    ELSE timers[s]]
    /\ NoReduce
    /\ lastOp' = Op("tick", 0)
    /\ scheduled' = 0
    /\ Quiet
    /\ UNCHANGED <<phase, renderError, socks, wsRef, wsConnected, reconnectTimer, requests>>

\* the timer set by socket s's onclose fires: connect()
TimerFire(s) ==
    /\ timers[s] = 0
    /\ CanConnect(Conn)
    /\ SetConn(connect([Conn EXCEPT !.timers[s] = NoTimer]))
    /\ NoReduce
    /\ lastOp' = Op("timer", s)
    /\ Quiet
    /\ UNCHANGED <<phase, renderError, requests>>

-----------------------------------------------------------
(* lib/sounds: playSound and the module-level currentAudio.                *)

NoCue == "no cue"

Sound == [audios |-> audios, currentAudio |-> currentAudio, started |-> << >>]

\* an Audio element that nothing references and that is not playing can never
\* sound again: it leaves the model (currentAudio follows its element)
Collect(p) ==
    LET Keep(i)       == i = p.currentAudio \/ p.audios[i].state = "playing"
        KeptUpTo(i)   == Cardinality({j \in 1..i : Keep(j)})
        n             == KeptUpTo(Len(p.audios))
        Nth(k)        == CHOOSE i \in DOMAIN p.audios : Keep(i) /\ KeptUpTo(i) = k
    IN  [p EXCEPT !.audios = [k \in 1..n |-> p.audios[Nth(k)]],
                  !.currentAudio = IF p.currentAudio = 0 THEN 0 ELSE KeptUpTo(p.currentAudio)]

\* if (currentAudio) { currentAudio.pause(); currentAudio = null }
stopCurrent(p) ==
    IF p.currentAudio # 0
    THEN [p EXCEPT !.audios[p.currentAudio].state = "paused", !.currentAudio = 0]
    ELSE p

\* currentAudio = new Audio(url); currentAudio.play()
startNew(p, snd_src) ==
    [p EXCEPT !.audios = Append(@, [snd_src |-> snd_src, state |-> "playing"]),
              !.currentAudio = Len(p.audios) + 1,
              !.started = Append(@, snd_src)]

\* (mutant) playSound that starts the new cue without pausing the old one
playSound_NoPause(p, snd_src) == Collect(startNew([p EXCEPT !.currentAudio = 0], snd_src))

playSound(p, snd_src) == Collect(startNew(stopCurrent(p), snd_src))

SetSound(p) ==
    /\ audios' = p.audios
    /\ currentAudio' = p.currentAudio
    /\ started' = p.started

\* the cue of Audio element i plays to its end (it stays referenced if it is
\* currentAudio: nothing listens for the ended event)
AudioEnds(i) ==
    /\ audios[i].state = "playing"
    /\ SetSound(Collect([Sound EXCEPT !.audios[i].state = "ended"]))
    /\ NoReduce
    /\ NoConn
    /\ NoBluetooth
    /\ lastOp' = Op("ended", 0)
    /\ UNCHANGED <<phase, renderError, requests>>

\* the promise of play() of Audio element i rejects (the asset does not load):
\* console.warn, the element stays where it is and plays nothing
PlayFails(i) ==
    /\ audios[i].state = "playing"
    /\ SetSound(Collect([Sound EXCEPT !.audios[i].state = "failed"]))
    /\ NoReduce
    /\ NoConn
    /\ NoBluetooth
    /\ lastOp' = Op("play_failed", 0)
    /\ UNCHANGED <<phase, renderError, requests>>

-----------------------------------------------------------
(* Inbound messages (type WSEvent) and ws.onmessage.                       *)

Msg(type, data) == [parses |-> TRUE, type |-> type, hasData |-> TRUE, data |-> data]
\* a JSON object with a type and no data property
MsgNoData(type) == [parses |-> TRUE, type |-> type, hasData |-> FALSE]
\* text that JSON.parse rejects
Unparseable == [parses |-> FALSE]
\* the JSON object {}
EmptyObject == [f \in {} |-> Undefined]

\* o[f], read the way JavaScript reads a property
Get(o, f) == IF f \in DOMAIN o THEN o[f] ELSE Undefined

WireController == [unique_id |-> "A", snd_src |-> "s1.wav"]
WireReady == [unique_id |-> "A", snd_src |-> "s1.wav", slot_index |-> 0]
WireSnapshot == [connected |-> SnapConnected({"B"}), ready |-> SnapReady({"A"})]

\* well-formed messages of the six session kinds
WellFormedMsgs ==
    {Msg("state_snapshot", WireSnapshot),
     Msg("controller_connected", WireController),
     Msg("controller_disconnected", [unique_id |-> "A"]),
     Msg("controller_ready", WireReady),
     Msg("controller_unready", [unique_id |-> "A"]),
     Msg("battery_update", [unique_id |-> "A", battery_percent |-> 42])}

\* malformed payloads: no JSON, an unrecognized tag, a recognized tag whose
\* data is missing or lacks its fields
MalformedMsgs ==
    {Unparseable,
     Msg("controller_renamed", [unique_id |-> "A"]),
     MsgNoData("state_snapshot"),
     Msg("state_snapshot", EmptyObject),
     MsgNoData("controller_connected"),
     Msg("controller_connected", EmptyObject),
     MsgNoData("controller_disconnected")}

\* the nine kinds of type WSEvent, the cases of the switch of ws.onmessage
RecognizedKinds ==
    {"state_snapshot", "controller_connected", "controller_disconnected",
     "controller_ready", "controller_unready", "battery_update",
     "bluetooth_scan_started", "bluetooth_device_found", "bluetooth_scan_complete"}

\* well-formed messages of kinds the client does not know
UnknownMsgs ==
    {Msg("controller_renamed", [unique_id |-> "A"]),
     Msg("state_snapshot_v2", WireSnapshot),
     Msg("bluetooth_scan_failed", EmptyObject)}

\* (mutant) a switch whose default case resets the session
NoCase_Resets == [type |-> "SET_STATE", connected |-> << >>, ready |-> << >>]

\* the switch of ws.onmessage has no default case: a type that matches no
\* case dispatches nothing
NoCase == NoAction

\* the action ws.onmessage hands to dispatch, NoAction when it dispatches
\* nothing (JSON.parse or a property read of undefined throws inside the try
\* block, or no case of the switch matches). A property the message lacks is
\* a property the action lacks.
Decode(m) ==
    IF ~m.parses THEN NoAction
    ELSE CASE m.type = "state_snapshot" ->
                IF ~m.hasData THEN NoAction
                ELSE [f \in {"type"} \cup ((DOMAIN m.data) \cap {"connected", "ready"}) |->
                        IF f = "type" THEN "SET_STATE" ELSE m.data[f]]
           [] m.type = "controller_connected" ->
                IF ~m.hasData THEN [type |-> "CONTROLLER_CONNECTED"]
                ELSE [type |-> "CONTROLLER_CONNECTED", controller |-> m.data]
           [] m.type = "controller_disconnected" ->
                IF ~m.hasData THEN NoAction
                ELSE [type |-> "CONTROLLER_DISCONNECTED", unique_id |-> Get(m.data, "unique_id")]
           [] m.type = "controller_ready" ->
                IF ~m.hasData THEN [type |-> "CONTROLLER_READY"]
                ELSE [type |-> "CONTROLLER_READY", controller |-> m.data]
           [] m.type = "controller_unready" ->
                IF ~m.hasData THEN NoAction
                ELSE [type |-> "CONTROLLER_UNREADY", unique_id |-> Get(m.data, "unique_id")]
           [] m.type = "battery_update" ->
                IF ~m.hasData THEN NoAction
                ELSE [type |-> "BATTERY_UPDATE", unique_id |-> Get(m.data, "unique_id"),
                      battery_percent |-> Get(m.data, "battery_percent")]
           [] OTHER -> NoCase

\* the reducer, or the render of the state it returns, throws a TypeError:
\* SET_STATE stores undefined lists and App reads ready.length; an undefined
\* controller is dereferenced by the reducer (action.controller.unique_id) or,
\* once stored in a list, by the render of that list
Throws(action) ==
    \/ action.type = "SET_STATE"
        /\ ("connected" \notin DOMAIN action \/ "ready" \notin DOMAIN action)
    \/ action.type \in {"CONTROLLER_CONNECTED", "CONTROLLER_READY"}
        /\ "controller" \notin DOMAIN action

\* (mutant) a dispatch that reduces the state of the render before the last
\* one (a handler that closed over the state instead of using useReducer)
Reduce_Stale(action) ==
    LET next == controllerReducer(prevState, action)
    IN  /\ connected' = next.connected
        /\ ready' = next.ready
        /\ folded' = controllerReducer(folded, action)
        /\ prevState' = State
        /\ lastAction' = action

\* rawDispatch(action) of a mounted component, without an exception: React
\* queues the action and runs the reducer on the current state
Reduce(action) ==
    LET next == controllerReducer(State, action)
    IN  /\ connected' = next.connected
        /\ ready' = next.ready
        /\ folded' = controllerReducer(folded, action)
        /\ prevState' = State
        /\ lastAction' = action

\* a request in flight: how its fetch ended (outcome), the state of the
\* promise request() returned (status), the calls of window.api.quitAndLaunch
\* its handlers made (relaunches), whether console.error ran (logged)
NewRequest(kind) ==
    [kind |-> kind, outcome |-> "none", status |-> "pending", relaunches |-> 0,
     logged |-> FALSE]

\* (mutant) dispatch without its return statements: REASSIGN and APPLY_CONFIG
\* issue their request and fall through to rawDispatch
dispatch_FallsThrough(action) ==
    IF action.type = "REASSIGN"
    THEN /\ requests' = Append(requests, NewRequest("clearReady"))
         /\ Reduce(action)
    ELSE IF action.type = "APPLY_CONFIG"
    THEN /\ requests' = Append(requests, NewRequest("applyConfig"))
         /\ Reduce(action)
    ELSE /\ UNCHANGED requests
         /\ Reduce(action)

\* dispatch(action) of useControllers: REASSIGN and APPLY_CONFIG issue a
\* request and return, every other action goes to rawDispatch
dispatch(action) ==
    IF action.type = "REASSIGN"
    THEN /\ requests' = Append(requests, NewRequest("clearReady"))
         /\ NoReduce
    ELSE IF action.type = "APPLY_CONFIG"
    THEN /\ requests' = Append(requests, NewRequest("applyConfig"))
         /\ NoReduce
    ELSE /\ UNCHANGED requests
         /\ Reduce(action)

\* an exception escapes the reducer or the render: React unmounts the tree,
\* which runs the effect's cleanup; the session state is discarded with it
Crash(action) ==
    /\ renderError' = TRUE
    /\ phase' = "unmounted"
    /\ SetConn(cleanup(Conn))
    /\ UNCHANGED <<sessionVars, requests>>
    /\ UNCHANGED folded
    /\ prevState' = State
    /\ lastAction' = action

\* (mutant) a cue for the first ready controller of a state_snapshot as well
Cue_SnapshotToo(m) ==
    IF m.parses /\ m.hasData /\ m.type = "controller_ready"
    THEN Get(m.data, "snd_src")
    ELSE IF m.parses /\ m.hasData /\ m.type = "state_snapshot"
            /\ "ready" \in DOMAIN m.data /\ Len(m.data.ready) > 0
    THEN Get(m.data.ready[1], "snd_src")
    ELSE NoCue

\* the argument of the playSound call ws.onmessage makes, NoCue when it makes
\* none: playSound(msg.data.snd_src) follows dispatch in the controller_ready
\* case only, and reading snd_src of a missing data throws into the catch
Cue(m) ==
    IF m.parses /\ m.hasData /\ m.type = "controller_ready"
    THEN Get(m.data, "snd_src")
    ELSE NoCue

\* addresses and names carried by bluetooth_device_found events
Addrs == {"aa:01", "aa:02"}
Names == {"Pad", "Pad (2)"}
FoundPayloads == {[name |-> n, address |-> a] : n \in Names, a \in Addrs}

BluetoothMsgs ==
    {Msg("bluetooth_scan_started", EmptyObject), Msg("bluetooth_scan_complete", EmptyObject)}
        \cup {Msg("bluetooth_device_found", d) : d \in FoundPayloads}

Projection ==
    [bluetoothDevices |-> bluetoothDevices, bluetoothScanning |-> bluetoothScanning]

\* prev.some((d) => d.address === address)
SomeAddress(list, address) == \E i \in DOMAIN list : Get(list[i], "address") = address

\* (mutant) the bluetooth cases without the check of the address
onBluetooth_NoDedupe(b, m, ph) ==
    IF ph = "unmounted" \/ ~m.parses THEN b
    ELSE CASE m.type = "bluetooth_scan_started" -> [b EXCEPT !.bluetoothScanning = TRUE]
           [] m.type = "bluetooth_device_found" /\ m.hasData ->
                [b EXCEPT !.bluetoothDevices =
                    Append(@, [name |-> Get(m.data, "name"),
                               address |-> Get(m.data, "address")])]
           [] m.type = "bluetooth_scan_complete" -> [b EXCEPT !.bluetoothScanning = FALSE]
           [] OTHER -> b

\* the bluetooth cases of ws.onmessage; the setters of an unmounted component
\* do nothing
onBluetooth(b, m, ph) ==
    IF ph = "unmounted" \/ ~m.parses THEN b
    ELSE CASE m.type = "bluetooth_scan_started" -> [b EXCEPT !.bluetoothScanning = TRUE]
           [] m.type = "bluetooth_device_found" /\ m.hasData ->
                IF SomeAddress(b.bluetoothDevices, Get(m.data, "address"))
                THEN b
                ELSE [b EXCEPT !.bluetoothDevices =
                        Append(@, [name |-> Get(m.data, "name"),
                                   address |-> Get(m.data, "address")])]
           [] m.type = "bluetooth_scan_complete" -> [b EXCEPT !.bluetoothScanning = FALSE]
           [] OTHER -> b

\* ws.onmessage of socket s with payload m
OnMessage(s, m) ==
    /\ socks[s] = "OPEN"
    /\ lastOp' = [op |-> "message", sock |-> s, msg |-> m,
                  wasPlaying |-> (currentAudio # 0 /\ audios[currentAudio].state = "playing")]
    /\ LET action == Decode(m)
       IN  IF action = NoAction \/ phase # "mounted"
           THEN NoReduce /\ NoConn /\ UNCHANGED <<phase, renderError, requests>>
           ELSE IF Throws(action)
                THEN Crash(action)
                ELSE dispatch(action) /\ NoConn /\ UNCHANGED <<phase, renderError>>
    /\ IF Cue(m) # NoCue THEN SetSound(playSound(Sound, Cue(m))) ELSE NoSound
    /\ LET b == onBluetooth(Projection, m, phase)
       IN  /\ bluetoothDevices' = b.bluetoothDevices
           /\ bluetoothScanning' = b.bluetoothScanning
    /\ UNCHANGED <<scanning, scanCalls>>

\* a well-formed message of the six session kinds arrives
Receive ==
    \E s \in SockIds, m \in WellFormedMsgs :
        /\ m.hasData
        /\ OnMessage(s, m)
        /\ UNCHANGED serviceScan

\* the message the device service sends for an event (type WSEvent)
WireEvent(a) ==
    CASE a.type = "SET_STATE" ->
            Msg("state_snapshot", [connected |-> a.connected, ready |-> a.ready])
      [] a.type = "CONTROLLER_CONNECTED" -> Msg("controller_connected", a.controller)
      [] a.type = "CONTROLLER_DISCONNECTED" ->
            Msg("controller_disconnected", [unique_id |-> a.unique_id])
      [] a.type = "CONTROLLER_READY" -> Msg("controller_ready", a.controller)
      [] a.type = "CONTROLLER_UNREADY" ->
            Msg("controller_unready", [unique_id |-> a.unique_id])
      [] a.type = "BATTERY_UPDATE" ->
            Msg("battery_update", [unique_id |-> a.unique_id,
                                   battery_percent |-> a.battery_percent])

\* the messages that make controllers ready and unready: every snapshot,
\* controller_ready and controller_unready event
LobbyMsgs == {WireEvent(a) : a \in SetStateActions \cup ReadyActions \cup UnreadyActions}

\* a snapshot, controller_ready or controller_unready message arrives
ReceiveLobby ==
    \E s \in SockIds, m \in LobbyMsgs :
        /\ m.type \in {"state_snapshot", "controller_ready", "controller_unready"}
        /\ OnMessage(s, m)
        /\ UNCHANGED serviceScan

\* the device service's scan as its events tell it: a scan is announced once
\* (bluetooth_scan_started), devices are reported while it runs, and it ends
\* with bluetooth_scan_complete
ServiceScan(m) ==
    \/ /\ m.type = "bluetooth_scan_started"
       /\ ~serviceScan
       /\ serviceScan' = TRUE
    \/ /\ m.type = "bluetooth_device_found"
       /\ serviceScan
       /\ UNCHANGED serviceScan
    \/ /\ m.type = "bluetooth_scan_complete"
       /\ serviceScan
       /\ serviceScan' = FALSE

\* a bluetooth scan event arrives
ReceiveBluetooth ==
    \E s \in SockIds, m \in BluetoothMsgs :
        /\ ServiceScan(m)
        /\ OnMessage(s, m)

\* a well-formed message of an unknown kind arrives
ReceiveUnknown ==
    \E s \in SockIds, m \in UnknownMsgs :
        /\ m.type \notin RecognizedKinds
        /\ OnMessage(s, m)
        /\ UNCHANGED serviceScan

\* a malformed payload arrives
ReceiveMalformed ==
    \E s \in SockIds, m \in MalformedMsgs :
        /\ m \notin WellFormedMsgs
        /\ OnMessage(s, m)
        /\ UNCHANGED serviceScan

-----------------------------------------------------------
(* The intent dispatcher: useControllers dispatch and lib/api request.     *)

\* remote requests a run may issue
MaxRequests == 2

\* how a fetch can end: an OK response with a JSON body, a non-OK status,
\* a network failure, an OK response whose body is not JSON
Outcomes == {"ok", "http_error", "network_error", "bad_body"}

\* (mutant) request() without the res.ok check
request_NoOkCheck(outcome) ==
    IF outcome \in {"ok", "http_error"} THEN "resolved" ELSE "rejected"

\* request(): throws unless fetch resolves, res.ok holds and res.json() resolves
request(outcome) == IF outcome = "ok" THEN "resolved" ELSE "rejected"

\* (mutant) api.clearReady() without the catch: a rejection is left unhandled
settleClearReady_NoCatch(r, outcome) ==
    [r EXCEPT !.outcome = outcome, !.status = request(outcome)]

\* api.clearReady().catch(console.error)
settleClearReady(r, outcome) ==
    IF request(outcome) = "resolved"
    THEN [r EXCEPT !.outcome = outcome, !.status = "resolved"]
    ELSE [r EXCEPT !.outcome = outcome, !.status = "rejected", !.logged = TRUE]

\* (mutant) quitAndLaunch called from the catch handler as well
settleApplyConfig_RelaunchAlways(r, outcome) ==
    [r EXCEPT !.outcome = outcome, !.status = request(outcome), !.relaunches = @ + 1]

\* api.applyConfig(t).then(() => window.api.quitAndLaunch()).catch(console.error)
settleApplyConfig(r, outcome) ==
    IF request(outcome) = "resolved"
    THEN [r EXCEPT !.outcome = outcome, !.status = "resolved", !.relaunches = @ + 1]
    ELSE [r EXCEPT !.outcome = outcome, !.status = "rejected", !.logged = TRUE]

\* the Reassign button of App: onReassign, enabled while hasReady
ClickReassign ==
    /\ phase = "mounted"
    /\ Len(ready) > 0
    /\ Len(requests) < MaxRequests
    /\ dispatch([type |-> "REASSIGN"])
    /\ lastOp' = Op("reassign", 0)
    /\ NoConn
    /\ Quiet
    /\ UNCHANGED <<phase, renderError>>

\* the Okay button of App: onOkay, enabled while hasReady
ClickOkay ==
    /\ phase = "mounted"
    /\ Len(ready) > 0
    /\ Len(requests) < MaxRequests
    /\ dispatch([type |-> "APPLY_CONFIG"])
    /\ lastOp' = Op("apply_config", 0)
    /\ NoConn
    /\ Quiet
    /\ UNCHANGED <<phase, renderError>>

\* the fetch of request i ends and the promise handlers run
RequestSettles(i, outcome) ==
    /\ requests[i].status = "pending"
    /\ requests' = [requests EXCEPT ![i] =
                        IF @.kind = "applyConfig"
                        THEN settleApplyConfig(@, outcome)
                        ELSE settleClearReady(@, outcome)]
    /\ NoReduce
    /\ lastOp' = Op("settle", i)
    /\ NoConn
    /\ Quiet
    /\ UNCHANGED <<phase, renderError>>

Settle == \E i \in DOMAIN requests, o \in Outcomes : RequestSettles(i, o)

-----------------------------------------------------------
(* RescanButton: the scan requests of the bluetooth projection.           *)

\* scan requests RescanButton may have in flight
MaxScanCalls == 2

\* RescanButton.handleScan up to its await: stop the scan when one is going
\* on (isScanning), else clear the found devices and ask for a scan
ClickScan ==
    /\ phase = "mounted"
    /\ Len(scanCalls) < MaxScanCalls
    /\ IF scanning \/ bluetoothScanning
       THEN /\ scanCalls' = Append(scanCalls, "stop")
            /\ UNCHANGED <<bluetoothDevices, scanning>>
       ELSE /\ bluetoothDevices' = << >>
            /\ scanning' = TRUE
            /\ scanCalls' = Append(scanCalls, "start")
    /\ UNCHANGED <<bluetoothScanning, serviceScan>>
    /\ NoReduce
    /\ NoConn
    /\ NoSound
    /\ lastOp' = Op("scan", 0)
    /\ UNCHANGED <<phase, renderError, requests>>

\* RescanButton.handleScan after its await: setScanning(false) in the finally
\* of a start request and after a stop request that resolved (a stop request
\* that rejects leaves the handler with the exception)
ScanCallSettles(i, outcome) ==
    /\ i \in DOMAIN scanCalls
    /\ scanCalls' = SubSeq(scanCalls, 1, i - 1) \o SubSeq(scanCalls, i + 1, Len(scanCalls))
    /\ scanning' = IF phase = "unmounted" THEN scanning
                   ELSE IF scanCalls[i] = "stop" /\ request(outcome) = "rejected" THEN scanning
                   ELSE FALSE
    /\ UNCHANGED <<bluetoothDevices, bluetoothScanning, serviceScan>>
    /\ NoReduce
    /\ NoConn
    /\ NoSound
    /\ lastOp' = Op("scan_settle", i)
    /\ UNCHANGED <<phase, renderError, requests>>

ScanSettles == \E i \in DOMAIN scanCalls, o \in {"ok", "network_error"} : ScanCallSettles(i, o)

-----------------------------------------------------------
(* ReadyGrid: the player slots the ready controllers are shown in.        *)

\* playerCount of ReadyGrid: null until the game's metadata names a number
\* of players (it never does when no gameFolder is passed)
NoCount == -1
PlayerCounts == {NoCount, 2, 4}

\* const TOTAL_SLOTS = playerCount ?? 1
TOTAL_SLOTS(playerCount) == IF playerCount = NoCount THEN 1 ELSE playerCount

\* the controller prop of an empty ReadySlot: null
NoController == [empty |-> TRUE]

\* Array.from({ length: TOTAL_SLOTS }, (_, i) => controllers[i] ?? null):
\* the controller rendered by the ReadySlot of each slotIndex
slots(controllers, playerCount) ==
    [index \in 0..(TOTAL_SLOTS(playerCount) - 1) |->
        IF index + 1 \in DOMAIN controllers THEN controllers[index + 1] ELSE NoController]

-----------------------------------------------------------
(* Specifications.                                                         *)

Open == \E s \in SockIds : SockOpen(s)
Close == \E s \in SockIds : SockClose(s)
Error == \E s \in SockIds : SockError(s)
Fire == \E s \in SockIds : TimerFire(s)

\* the whole client: the composition of every action. Its state space is
\* the product of the parts; the specifications below restrict it to one part
\* each, and those are the ones model-checked.
Next ==
    \/ Mount
    \/ EffectRerun
    \/ Unmount
    \/ Open
    \/ Close
    \/ Error
    \/ TimerTick
    \/ Fire
    \/ Receive
    \/ ReceiveMalformed
    \/ ClickReassign
    \/ ClickOkay
    \/ Settle

Spec == Init /\ [][Next]_vars

\* the connection manager on its own: the effect, the socket events and the
\* reconnect timer
NextConn ==
    \/ Mount
    \/ EffectRerun
    \/ Unmount
    \/ Open
    \/ Close
    \/ Error
    \/ TimerTick
    \/ Fire

SpecConn == Init /\ [][NextConn]_vars

\* the connection manager under the scheduling of the event loop: time
\* passes, and a timer that is due runs its callback
SpecConnFair ==
    /\ SpecConn
    /\ WF_vars(TimerTick)
    /\ \A s \in SockIds : WF_vars(TimerFire(s))

\* the message path: a client that mounts once, receives payloads on its
\* sockets and reconnects when they close
NextMsg ==
    \/ Mount
    \/ Unmount
    \/ Open
    \/ Close
    \/ Error
    \/ TimerTick
    \/ Fire
    \/ Receive
    \/ ReceiveMalformed

SpecMsg == Init /\ [][NextMsg]_vars

\* the intent path: events make controllers ready, the user clicks, the
\* requests settle, the component may unmount meanwhile
NextDispatch ==
    \/ Mount
    \/ Unmount
    \/ Open
    \/ Close
    \/ Receive
    \/ ClickReassign
    \/ ClickOkay
    \/ Settle

SpecDispatch == Init /\ [][NextDispatch]_vars

\* the cue path: a mounted client receives the messages that change the
\* ready set while the cues it starts play, end or fail to load
Ends == \E i \in DOMAIN audios : AudioEnds(i)
Fails == \E i \in DOMAIN audios : PlayFails(i)

NextSound ==
    \/ Mount
    \/ Open
    \/ ReceiveLobby
    \/ Ends
    \/ Fails

SpecSound == Init /\ [][NextSound]_vars

\* the bluetooth projection: scan events arrive while the user starts and
\* stops scans with the Rescan button
NextBluetooth ==
    \/ Mount
    \/ Open
    \/ ReceiveBluetooth
    \/ ClickScan
    \/ ScanSettles

SpecBluetooth == Init /\ [][NextBluetooth]_vars

\* forward compatibility: a connected client with controllers, cues and a
\* bluetooth scan going on receives messages of kinds it does not know
NextUnknown ==
    \/ Mount
    \/ Open
    \/ ReceiveLobby
    \/ ReceiveBluetooth
    \/ ReceiveUnknown

SpecUnknown == Init /\ [][NextUnknown]_vars

\* the reducer on its own: every sequence of well-formed events applied by
\* rawDispatch from the empty state of useReducer
Apply(action) ==
    /\ dispatch(action)
    /\ lastOp' = Op("apply", 0)
    /\ NoConn
    /\ Quiet
    /\ UNCHANGED <<phase, renderError>>

ApplySetState ==
    \E a \in SetStateActions : a.type = "SET_STATE" /\ Apply(a)
ApplyConnected ==
    \E a \in ConnectedActions : a.type = "CONTROLLER_CONNECTED" /\ Apply(a)
ApplyDisconnected ==
    \E a \in DisconnectedActions : a.type = "CONTROLLER_DISCONNECTED" /\ Apply(a)
ApplyReady ==
    \E a \in ReadyActions : a.type = "CONTROLLER_READY" /\ Apply(a)
ApplyUnready ==
    \E a \in UnreadyActions : a.type = "CONTROLLER_UNREADY" /\ Apply(a)
ApplyBattery ==
    \E a \in BatteryActions : a.type = "BATTERY_UPDATE" /\ Apply(a)

NextReducer ==
    \/ ApplySetState
    \/ ApplyConnected
    \/ ApplyDisconnected
    \/ ApplyReady
    \/ ApplyUnready
    \/ ApplyBattery

SpecReducer == Init /\ [][NextReducer]_vars

-----------------------------------------------------------
(* Properties of the reducer.                                              *)

\* no two entries of the list have the same unique_id
NoDupIds(list) ==
    \A i, j \in DOMAIN list : UniqueId(list[i]) = UniqueId(list[j]) => i = j

\* the number of entries of the list with this unique_id
CountId(list, id) == Cardinality({i \in DOMAIN list : UniqueId(list[i]) = id})

\* C1: in every state reached by a sequence of events from the empty state,
\* `connected` holds no two entries with the same unique_id and neither does
\* `ready`.
C1_UniqueIdsWithinEachSet == NoDupIds(connected) /\ NoDupIds(ready)

\* C2: after controller_ready{A} has been applied, whatever the state before,
\* no entry of `connected` has A's unique_id.
C2_ReadyLeavesConnected ==
    lastAction.type = "CONTROLLER_READY"
        => ~SomeId(connected, UniqueId(lastAction.controller))

\* C9: applying the event that was just applied once more leaves the state
\* as it is, for every reached state and every event of the six kinds.
C9_ApplyTwiceIsApplyOnce ==
    lastAction.type # "NONE" => controllerReducer(State, lastAction) = State

\* an event that changed the state has been applied (and a second
\* application has something it could change)
C9_Witness ==
    /\ lastAction.type = "CONTROLLER_UNREADY"
    /\ State # prevState
    /\ Len(connected) > 1

\* C10: controller_ready{A, slot_index: 0} applied where A was not ready,
\* followed by controller_unready{A}: A is not in `ready`, is in `connected`
\* exactly once with the payload's fields except slot_index, and all other
\* entries of both lists are as they were before the two events.
C10_ReadyThenUnready ==
    (/\ lastAction.type = "CONTROLLER_READY"
     /\ lastAction.controller.slot_index = 0
     /\ ~SomeId(prevState.ready, UniqueId(lastAction.controller)))
    => LET c    == lastAction.controller
           id   == UniqueId(c)
           s2   == controllerReducer(State, [type |-> "CONTROLLER_UNREADY", unique_id |-> id])
           back == s2.connected[Len(s2.connected)]
       IN  /\ ~SomeId(s2.ready, id)
           /\ CountId(s2.connected, id) = 1
           /\ UniqueId(back) = id
           /\ DOMAIN back = (DOMAIN c) \ {"slot_index"}
           /\ \A f \in DOMAIN back : back[f] = c[f]
           /\ FilterOutId(s2.connected, id) = FilterOutId(prevState.connected, id)
           /\ s2.ready = prevState.ready

\* controller_ready{A, slot_index: 0} has been applied to a state where A was
\* connected with other fields and both lists held another controller
C10_Witness ==
    /\ lastAction.type = "CONTROLLER_READY"
    /\ lastAction.controller.slot_index = 0
    /\ ~SomeId(prevState.ready, UniqueId(lastAction.controller))
    /\ SomeId(prevState.connected, UniqueId(lastAction.controller))
    /\ FindId(prevState.connected, UniqueId(lastAction.controller))
            # StripSlot(lastAction.controller)
    /\ Len(prevState.ready) > 0
    /\ Len(ready) > 1

\* C11: a well-formed state_snapshot message handled by a mounted client
\* leaves `connected` and `ready` equal to the snapshot's two lists, whatever
\* the state before it and whichever socket (the first or a later one, after
\* a reconnect) delivered it.
C11_SnapshotReplacesBoth ==
    (/\ lastOp.op = "message"
     /\ lastOp.msg \in WellFormedMsgs
     /\ lastOp.msg.type = "state_snapshot"
     /\ lastAction.type = "SET_STATE")
    => /\ connected = lastOp.msg.data.connected
       /\ ready = lastOp.msg.data.ready

\* a snapshot has arrived after a reconnect and replaced a state that held
\* entries, in both lists, that the snapshot does not hold
C11_Witness ==
    /\ lastOp.op = "message"
    /\ lastOp.msg \in WellFormedMsgs
    /\ lastOp.msg.type = "state_snapshot"
    /\ lastAction.type = "SET_STATE"
    /\ lastOp.sock > 1
    /\ \E i \in DOMAIN prevState.connected :
            \A j \in DOMAIN connected : connected[j] # prevState.connected[i]
    /\ \E i \in DOMAIN prevState.ready :
            \A j \in DOMAIN ready : ready[j] # prevState.ready[i]

\* C12: in every state that controller_ready events with distinct unique_ids
\* lead to from the empty state (nothing is connected and the entries of
\* `ready` are the events' payloads), the slot_index values of the entries of
\* `ready` are pairwise distinct.
C12_ReadySlotsDistinct ==
    (/\ connected = << >>
     /\ \A i \in DOMAIN ready : ready[i] \in ReadyPayloads
     /\ NoDupIds(ready))
    => \A i, j \in DOMAIN ready :
            Get(ready[i], "slot_index") = Get(ready[j], "slot_index") => i = j

\* a value of type ControllerState: two lists of controllers, each with a
\* unique_id, those of `ready` with a slot_index
IsState(x) ==
    /\ DOMAIN x = {"connected", "ready"}
    /\ DOMAIN x.connected = 1..Len(x.connected)
    /\ DOMAIN x.ready = 1..Len(x.ready)
    /\ \A i \in DOMAIN x.connected : "unique_id" \in DOMAIN x.connected[i]
    /\ \A i \in DOMAIN x.ready : {"unique_id", "slot_index"} \subseteq DOMAIN x.ready[i]

\* C27: in every reached state the reducer returns a state for every event
\* of the six kinds; an event that names a unique_id found in neither list
\* (controller_disconnected, controller_unready, battery_update) returns the
\* state as it is; so does an action of any other kind, REASSIGN and
\* APPLY_CONFIG included.
C27_ReducerIsTotal ==
    /\ \A a \in EventActions \cup StrangerActions : IsState(controllerReducer(State, a))
    /\ \A a \in DisconnectedActions \cup UnreadyActions \cup BatteryActions \cup StrangerActions :
            (~SomeId(connected, a.unique_id) /\ ~SomeId(ready, a.unique_id))
                => controllerReducer(State, a) = State
    /\ \A a \in OtherActions : controllerReducer(State, a) = State

\* an event that names a controller found in neither list has been applied
\* to a state that holds another controller in each list
C27_Witness ==
    /\ lastAction.type \in {"CONTROLLER_DISCONNECTED", "CONTROLLER_UNREADY", "BATTERY_UPDATE"}
    /\ ~SomeId(prevState.connected, lastAction.unique_id)
    /\ ~SomeId(prevState.ready, lastAction.unique_id)
    /\ prevState.connected # << >>
    /\ prevState.ready # << >>
    /\ State = prevState

\* `after` is `before` without its entries of this unique_id: every other
\* entry is there, unchanged, moved up by the number of entries removed
\* before it, and nothing else is
KeptOthers(before, after, id) ==
    /\ Len(after) = Len(before) - CountId(before, id)
    /\ ~SomeId(after, id)
    /\ \A i \in DOMAIN before :
            UniqueId(before[i]) # id
                => after[i - CountId(SubSeq(before, 1, i), id)] = before[i]

\* C28: after controller_disconnected{id} no entry of `connected` or of
\* `ready` has that unique_id, whichever list held it before, and the entries
\* with another unique_id are in their list as before, unchanged.
C28_DisconnectedRemovesEverywhere ==
    lastAction.type = "CONTROLLER_DISCONNECTED"
        => /\ KeptOthers(prevState.connected, connected, lastAction.unique_id)
           /\ KeptOthers(prevState.ready, ready, lastAction.unique_id)

\* a controller held by both lists has been disconnected and a controller
\* with another unique_id is still there
C28_Witness ==
    /\ lastAction.type = "CONTROLLER_DISCONNECTED"
    /\ SomeId(prevState.connected, lastAction.unique_id)
    /\ SomeId(prevState.ready, lastAction.unique_id)
    /\ Len(connected) + Len(ready) > 0

\* C29: controller_unready{id} returns the state as it is when no entry of
\* `ready` has that unique_id; otherwise `ready` loses that entry and keeps
\* the others, `connected` keeps its entries and gains, at its end, the entry
\* without slot_index and with every other field as it was.
C29_UnreadyMovesBack ==
    lastAction.type = "CONTROLLER_UNREADY"
        => LET id == lastAction.unique_id
           IN  IF ~SomeId(prevState.ready, id)
               THEN State = prevState
               ELSE LET removed == FindId(prevState.ready, id)
                        moved   == connected[Len(connected)]
                    IN  /\ KeptOthers(prevState.ready, ready, id)
                        /\ Len(connected) = Len(prevState.connected) + 1
                        /\ SubSeq(connected, 1, Len(prevState.connected)) = prevState.connected
                        /\ DOMAIN moved = (DOMAIN removed) \ {"slot_index"}
                        /\ \A f \in DOMAIN moved : moved[f] = removed[f]

\* a ready controller that carries a battery_percent has been made unready
\* while another controller was connected
C29_Witness ==
    /\ lastAction.type = "CONTROLLER_UNREADY"
    /\ SomeId(prevState.ready, lastAction.unique_id)
    /\ "battery_percent" \in DOMAIN FindId(prevState.ready, lastAction.unique_id)
    /\ prevState.connected # << >>
    /\ UniqueId(prevState.connected[1]) # lastAction.unique_id

\* `after` is `before` with battery_percent set to p in the entries of this
\* unique_id: same length, same order, other fields and other entries as
\* they were
OnlyBatteryOf(before, after, id, p) ==
    /\ Len(after) = Len(before)
    /\ \A i \in DOMAIN before :
            IF UniqueId(before[i]) = id
            THEN /\ DOMAIN after[i] = (DOMAIN before[i]) \cup {"battery_percent"}
                 /\ after[i].battery_percent = p
                 /\ \A f \in (DOMAIN before[i]) \ {"battery_percent"} :
                        after[i][f] = before[i][f]
            ELSE after[i] = before[i]

\* C30: battery_update{id, percent} changes the battery_percent of the
\* entries with that unique_id, in whichever list holds one, and nothing
\* else: both lists keep their length and order, the other fields and the
\* other entries; when neither list holds the id the state is unchanged.
C30_BatteryUpdateOnlyBattery ==
    lastAction.type = "BATTERY_UPDATE"
        => LET id == lastAction.unique_id
               p  == lastAction.battery_percent
           IN  /\ OnlyBatteryOf(prevState.connected, connected, id, p)
               /\ OnlyBatteryOf(prevState.ready, ready, id, p)
               /\ (~SomeId(prevState.connected, id) /\ ~SomeId(prevState.ready, id))
                    => State = prevState

\* a battery_update has given a battery_percent to the first of two ready
\* controllers
C30_Witness ==
    /\ lastAction.type = "BATTERY_UPDATE"
    /\ Len(prevState.ready) = 2
    /\ UniqueId(prevState.ready[1]) = lastAction.unique_id
    /\ "battery_percent" \notin DOMAIN prevState.ready[1]
    /\ ready[1].battery_percent = lastAction.battery_percent
    /\ ready[2] = prevState.ready[2]

\* C31: controller_ready{c} for a unique_id that no entry of `ready` has
\* puts c at the end of `ready` and leaves no entry of that id in
\* `connected` (the other entries of both lists stay); for a unique_id that
\* `ready` holds already, `ready` is left as it is, whatever slot_index and
\* fields the repeated event carries.
C31_ReadyAppendsOnce ==
    lastAction.type = "CONTROLLER_READY"
        => LET c  == lastAction.controller
               id == UniqueId(c)
           IN  IF ~SomeId(prevState.ready, id)
               THEN /\ ready = Append(prevState.ready, c)
                    /\ KeptOthers(prevState.connected, connected, id)
               ELSE ready = prevState.ready

\* a controller_ready event has been applied for a controller that was ready
\* with another slot_index and other fields, next to another ready controller
C31_Witness ==
    /\ lastAction.type = "CONTROLLER_READY"
    /\ SomeId(prevState.ready, UniqueId(lastAction.controller))
    /\ LET old == FindId(prevState.ready, UniqueId(lastAction.controller))
       IN  /\ old.slot_index # lastAction.controller.slot_index
           /\ old.snd_src # lastAction.controller.snd_src
    /\ Len(ready) = 2

\* the unique_ids that both lists of a state hold
Overlap(st) == {id \in Ids : SomeId(st.connected, id) /\ SomeId(st.ready, id)}

\* a state_snapshot whose lists are not disjoint: A is in both
OverlapSnapshot ==
    [type |-> "SET_STATE",
     connected |-> <<[unique_id |-> "A", snd_src |-> "s1.wav"]>>,
     ready |-> <<[unique_id |-> "A", snd_src |-> "s1.wav", slot_index |-> 0]>>]

\* disjointness is kept by the four events, and broken by
\* controller_connected{A} with A ready and by a snapshot that is not disjoint
DisjointnessKeptAndBroken ==
    /\ (Overlap(prevState) = {}
            /\ lastAction.type \in {"CONTROLLER_DISCONNECTED", "CONTROLLER_READY",
                                    "CONTROLLER_UNREADY", "BATTERY_UPDATE"})
        => Overlap(State) = {}
    /\ (Overlap(prevState) = {} /\ Overlap(State) # {})
        => \/ /\ lastAction.type = "CONTROLLER_CONNECTED"
              /\ SomeId(prevState.ready, UniqueId(lastAction.controller))
              /\ Overlap(State) = {UniqueId(lastAction.controller)}
           \/ /\ lastAction.type = "SET_STATE"
              /\ Overlap([connected |-> lastAction.connected, ready |-> lastAction.ready]) # {}
    /\ \A a \in ConnectedActions :
            (Overlap(State) = {} /\ SomeId(ready, UniqueId(a.controller)))
                => Overlap(controllerReducer(State, a)) = {UniqueId(a.controller)}
    /\ Overlap(controllerReducer(State, OverlapSnapshot)) = {"A"}

\* C32 (as stated): disjointness of `connected` and `ready` is kept by
\* controller_disconnected, controller_ready, controller_unready and
\* battery_update and broken only by controller_connected{A} with A ready or
\* by a snapshot that is not disjoint; and an A that is in both lists stays in
\* both until a controller_disconnected{A} or a state_snapshot is applied.
C32_OverlapUntilDisconnected ==
    /\ DisjointnessKeptAndBroken
    /\ \A id \in Overlap(prevState) :
            id \notin Overlap(State)
                => \/ lastAction.type = "SET_STATE"
                   \/ lastAction.type = "CONTROLLER_DISCONNECTED" /\ lastAction.unique_id = id

\* C32 (amended): as above, and an A that is in both lists stays in both
\* until a controller_disconnected{A}, a controller_unready{A} or a
\* state_snapshot is applied.
C32_OverlapUntilRemoved ==
    /\ DisjointnessKeptAndBroken
    /\ \A id \in Overlap(prevState) :
            id \notin Overlap(State)
                => \/ lastAction.type = "SET_STATE"
                   \/ lastAction.type = "CONTROLLER_DISCONNECTED" /\ lastAction.unique_id = id
                   \/ lastAction.type = "CONTROLLER_UNREADY" /\ lastAction.unique_id = id

\* controller_unready{A} has been applied while A was in both lists: A has
\* left `ready` and `connected` holds it twice
C32_Witness ==
    /\ lastAction.type = "CONTROLLER_UNREADY"
    /\ lastAction.unique_id \in Overlap(prevState)
    /\ Overlap(State) = {}
    /\ CountId(connected, lastAction.unique_id) = 2

\* C37: a move between the lists keeps the battery level. The entry that
\* controller_unready{A} puts into `connected` has the battery_percent the
\* ready entry had (the one a battery_update gave it), and the entry that
\* controller_ready{A} puts into `ready` has the battery_percent the connected
\* entry had.
C37_BatterySurvivesMoves ==
    /\ (lastAction.type = "CONTROLLER_UNREADY" /\ SomeId(prevState.ready, lastAction.unique_id))
        => LET old == FindId(prevState.ready, lastAction.unique_id)
           IN  "battery_percent" \in DOMAIN old
                => /\ "battery_percent" \in DOMAIN connected[Len(connected)]
                   /\ connected[Len(connected)].battery_percent = old.battery_percent
    /\ (/\ lastAction.type = "CONTROLLER_READY"
        /\ ~SomeId(prevState.ready, UniqueId(lastAction.controller))
        /\ SomeId(prevState.connected, UniqueId(lastAction.controller)))
        => LET old == FindId(prevState.connected, UniqueId(lastAction.controller))
           IN  "battery_percent" \in DOMAIN old
                => /\ "battery_percent" \in DOMAIN ready[Len(ready)]
                   /\ ready[Len(ready)].battery_percent = old.battery_percent

\* C38: for every `ready` list the reducer produces and every player
\* count, each ready controller is rendered by the ReadySlot whose slotIndex
\* is the controller's slot_index (so each one has a slot).
C38_GridShowsSlotIndex ==
    \A pc \in PlayerCounts :
        \A i \in DOMAIN ready :
            /\ ready[i].slot_index \in DOMAIN slots(ready, pc)
            /\ slots(ready, pc)[ready[i].slot_index] = ready[i]

-----------------------------------------------------------
(* Properties of the connection manager.                                   *)

\* C3: once the component has been torn down (unmounted), no step creates a
\* socket: no further connection attempt is made.
C3_NoAttemptAfterTeardown ==
    [][phase = "unmounted" => NumCreated(socks') = NumCreated(socks)]_vars

\* C4: a connect() made by the reconnect timer while the tracked socket is
\* open or still connecting creates no socket and leaves wsRef as it is.
C4_ConnectIsNoOpWhileBusy ==
    [][(lastOp'.op = "timer" /\ wsRef # 0 /\ socks[wsRef] \in {"CONNECTING", "OPEN"})
        => (NumCreated(socks') = NumCreated(socks) /\ wsRef' = wsRef)]_vars

\* C5: a malformed payload is discarded: the step that handles it changes
\* neither `connected` nor `ready`, raises no error, hands nothing to the
\* reducer and leaves every socket as it was.
C5_MalformedIsDiscarded ==
    [][(lastOp'.op = "message" /\ lastOp'.msg \in MalformedMsgs)
        => (/\ UNCHANGED <<connected, ready>>
            /\ ~renderError'
            /\ lastAction' = NoAction
            /\ socks' = socks)]_vars

\* C17: the step that handles the close of a socket (a close event, or an
\* error event with its close event) makes no connection attempt and sets that
\* socket's reconnect timer to RECONNECT_DELAY, the same for every socket; no
\* attempt is made while the timer runs down; the timer fires when the whole
\* delay has elapsed and its connect() makes exactly one attempt.
C17_OneAttemptAfterFixedDelay ==
    [][/\ lastOp'.op \in {"close", "error"}
            => /\ timers'[lastOp'.sock] = RECONNECT_DELAY
               /\ NumCreated(socks') = NumCreated(socks)
       /\ lastOp'.op = "tick"
            => NumCreated(socks') = NumCreated(socks)
       /\ lastOp'.op = "timer"
            => /\ timers[lastOp'.sock] = 0
               /\ NumCreated(socks') = NumCreated(socks) + 1]_vars

\* C18: while the component is mounted, every close of a socket (a close
\* event, or a failed attempt's error) is followed by a new connection
\* attempt or by the teardown, however many sockets were created before (up
\* to the model's socket budget).
C18_ReconnectsForever ==
    \A n \in 1..(MaxSockets - 1) :
        (/\ phase = "mounted"
         /\ lastOp.op \in {"close", "error"}
         /\ NumCreated(socks) = n)
        ~> (NumCreated(socks) > n \/ phase = "unmounted")

\* a reconnect timer has made an attempt after every earlier attempt failed
\* or was closed
C18_Witness ==
    /\ phase = "mounted"
    /\ lastOp.op = "timer"
    /\ NumCreated(socks) = MaxSockets
    /\ \A s \in 1..(MaxSockets - 1) : socks[s] = "CLOSED"

\* C19: the step that handles a connection error of a socket (its error
\* event and the close event that follows) leaves the socket closed, reports
\* Disconnected, tracks no socket, calls setTimeout exactly once, for
\* RECONNECT_DELAY, raises no error and unmounts nothing; and the timer of a
\* closed socket is never set again.
C19_ErrorIsOneClose ==
    [][/\ lastOp'.op = "error"
            => /\ socks'[lastOp'.sock] = "CLOSED"
               /\ phase = "mounted" => ~wsConnected'
               /\ wsRef' = 0
               /\ scheduled' = 1
               /\ timers'[lastOp'.sock] = RECONNECT_DELAY
               /\ reconnectTimer' = lastOp'.sock
               /\ ~renderError'
               /\ phase' = phase
       /\ \A s \in SockIds :
            socks[s] = "CLOSED" => (socks'[s] = "CLOSED" /\ timers'[s] <= timers[s])]_vars

\* the connection of a mounted client that was reported Connected has ended
\* with an error, after an earlier socket had failed too
C19_Witness ==
    /\ lastOp.op = "error"
    /\ lastOp.sock >= 2
    /\ phase = "mounted"
    /\ ~wsConnected
    /\ scheduled = 1
    /\ \A s \in 1..lastOp.sock : socks[s] = "CLOSED" /\ timers[s] \in {NoTimer, RECONNECT_DELAY}

\* C20: for a mounted client, `connected` becomes true in a step that
\* handles an open event only, is false after every step that handles a close
\* or an error, and the connection state changes only from Disconnected to
\* Connecting (mount, effect re-run, timer), from Connecting to Connected
\* (open) and to Disconnected (close, error).
C20_ConnectionStateMachine ==
    [][phase' = "mounted"
        => /\ (wsConnected' /\ ~wsConnected) => lastOp'.op = "open"
           /\ lastOp'.op \in {"close", "error"} => ConnState' = "Disconnected"
           /\ ConnState' # ConnState
                => \/ /\ ConnState = "Disconnected"
                      /\ ConnState' = "Connecting"
                      /\ lastOp'.op \in {"mount", "rerun", "timer"}
                   \/ /\ ConnState = "Connecting"
                      /\ ConnState' = "Connected"
                      /\ lastOp'.op = "open"
                   \/ /\ ConnState' = "Disconnected"
                      /\ lastOp'.op \in {"close", "error"}]_vars

\* the sockets that are connecting or open: the ones that can deliver events
LiveSockets == {s \in SockIds : socks[s] \in {"CONNECTING", "OPEN"}}

\* C21: at every point of every run (effect re-runs and late close events of
\* superseded sockets included) at most one socket created by connect() is
\* connecting or open.
C21_SingleConnection == Cardinality(LiveSockets) <= 1

\* the steps of the connection lifecycle
LifecycleOps == {"mount", "rerun", "unmount", "open", "close", "error", "tick", "timer"}

\* C22: a step of the connection lifecycle (mount, open, close, error, the
\* reconnect timer running down and firing, teardown) hands nothing to the
\* reducer and leaves `connected` and `ready` as they were.
C22_LifecycleKeepsSession ==
    [][lastOp'.op \in LifecycleOps
        => (UNCHANGED <<connected, ready>> /\ lastAction' = NoAction)]_vars

\* a reconnect has completed (a later socket has opened) for a client that
\* holds controllers in both sets, and they are the ones it held before
C22_Witness ==
    /\ lastOp.op = "open"
    /\ lastOp.sock > 1
    /\ phase = "mounted"
    /\ connected # << >>
    /\ ready # << >>
    /\ State = prevState

\* C23: the step that handles a well-formed message whose type is none of
\* the nine recognized kinds changes neither the session state, nor the
\* bluetooth projection, nor the connection, starts no cue, hands nothing to
\* the reducer and raises no error.
C23_UnknownKindIgnored ==
    [][(/\ lastOp'.op = "message"
        /\ lastOp'.msg.parses
        /\ lastOp'.msg.hasData
        /\ lastOp'.msg.type \notin RecognizedKinds)
       => (/\ UNCHANGED <<connected, ready>>
           /\ UNCHANGED <<bluetoothDevices, bluetoothScanning>>
           /\ UNCHANGED <<socks, wsRef, wsConnected, timers, reconnectTimer>>
           /\ UNCHANGED <<audios, currentAudio>>
           /\ started' = << >>
           /\ lastAction' = NoAction
           /\ ~renderError'
           /\ phase' = phase)]_vars

\* a message of an unknown kind has been handled by a client with a ready
\* controller, a cue playing, a scan going on and a device found
C23_Witness ==
    /\ lastOp.op = "message"
    /\ lastOp.msg \in UnknownMsgs
    /\ lastOp.wasPlaying
    /\ ready # << >>
    /\ bluetoothScanning
    /\ bluetoothDevices # << >>
    /\ wsConnected

PendingTimers == {s \in SockIds : timers[s] # NoTimer}

\* C35: at most one reconnect timer is pending, and a pending timer is the
\* one whose handle reconnectTimer holds (the one the cleanup clears).
C35_OneTimerPending ==
    /\ Cardinality(PendingTimers) <= 1
    /\ \A s \in PendingTimers : reconnectTimer = s

\* C36: while the component is mounted the `connected` flag is true exactly
\* when the tracked socket is open; and the step that handles the close (or
\* the error) of a socket that is not the tracked one, while the tracked one
\* is connecting or open, leaves the flag and wsRef as they are and schedules
\* no reconnect.
C36_FlagFollowsTrackedSocket ==
    [][/\ phase' = "mounted"
            => (wsConnected' <=> (wsRef' # 0 /\ socks'[wsRef'] = "OPEN"))
       /\ (/\ lastOp'.op \in {"close", "error"}
           /\ wsRef # 0
           /\ lastOp'.sock # wsRef
           /\ socks[wsRef] \in {"CONNECTING", "OPEN"})
            => (/\ wsConnected' = wsConnected
                /\ wsRef' = wsRef
                /\ scheduled' = 0)]_vars

-----------------------------------------------------------
(* Properties of the ready cue.                                            *)

\* C13: a controller_ready message for a controller that is already in
\* `ready` with the very payload the message carries (a duplicate, which the
\* reducer treats as a no-op) starts no cue.
C13_NoCueForDuplicateReady ==
    [][(/\ lastOp'.op = "message"
        /\ lastOp'.msg.parses
        /\ lastOp'.msg.type = "controller_ready"
        /\ lastOp'.msg.hasData
        /\ SomeId(ready, UniqueId(lastOp'.msg.data))
        /\ FindId(ready, UniqueId(lastOp'.msg.data)) = lastOp'.msg.data)
       => started' = << >>]_vars

\* C14: a controller_ready message starts exactly one cue, the one its
\* snd_src names, which is then the playing currentAudio; a message of any
\* other kind, a state_snapshot with ready controllers included, starts no
\* cue and leaves the player as it is.
C14_CueOnReadyOnly ==
    [][lastOp'.op = "message"
        => LET m == lastOp'.msg
           IN  IF m.parses /\ m.hasData /\ m.type = "controller_ready"
               THEN /\ started' = <<m.data.snd_src>>
                    /\ currentAudio' # 0
                    /\ audios'[currentAudio'] =
                            [snd_src |-> m.data.snd_src, state |-> "playing"]
               ELSE /\ started' = << >>
                    /\ UNCHANGED <<audios, currentAudio>>]_vars

\* a state_snapshot has made ready a controller that was not ready before,
\* and no cue is playing
C14_Witness ==
    /\ lastOp.op = "message"
    /\ lastOp.msg.type = "state_snapshot"
    /\ \E i \in DOMAIN ready : ~SomeId(prevState.ready, UniqueId(ready[i]))
    /\ started = << >>
    /\ \A i \in DOMAIN audios : audios[i].state # "playing"

\* C15: at most one Audio element is playing and the player holds one
\* element at most (the one before is paused and dropped); a cue that was
\* started is the playing currentAudio at once, nothing is queued.
C15_AtMostOneCue ==
    /\ Cardinality({i \in DOMAIN audios : audios[i].state = "playing"}) <= 1
    /\ Len(audios) <= 1
    /\ \A i \in DOMAIN audios : audios[i].state = "playing" => i = currentAudio
    /\ started # << >>
        => /\ Len(started) = 1
           /\ currentAudio # 0
           /\ audios[currentAudio] = [snd_src |-> started[1], state |-> "playing"]

\* a cue has been started while another cue, of another snd_src, was playing
C15_Witness ==
    /\ lastOp.op = "message"
    /\ lastOp.wasPlaying
    /\ started = <<"s2.wav">>
    /\ \E i \in DOMAIN prevState.ready : prevState.ready[i].snd_src = "s1.wav"

-----------------------------------------------------------
(* Properties of the bluetooth projection.                                 *)

\* C16: the step that handles a bluetooth_scan_started event leaves the
\* found-devices list empty, so no device found in an earlier scan is listed
\* during the scan that starts.
C16_ScanStartResetsDevices ==
    [][(/\ lastOp'.op = "message"
        /\ lastOp'.msg.parses
        /\ lastOp'.msg.type = "bluetooth_scan_started")
       => bluetoothDevices' = << >>]_vars

\* no two devices of the list have the same address
NoDupAddresses(list) ==
    \A i, j \in DOMAIN list : list[i].address = list[j].address => i = j

\* C34: after every step the found-devices list holds no address twice; a
\* bluetooth_device_found event with an address the list holds leaves the
\* list as it is, one with a new address adds that device at the end; the
\* scanning flag becomes true with a bluetooth_scan_started event, false with
\* a bluetooth_scan_complete event, and no other step changes it.
C34_DedupedDevicesAndScanFlag ==
    [][/\ NoDupAddresses(bluetoothDevices')
       /\ (lastOp'.op = "message" /\ lastOp'.msg.type = "bluetooth_device_found")
            => IF SomeAddress(bluetoothDevices, lastOp'.msg.data.address)
               THEN bluetoothDevices' = bluetoothDevices
               ELSE bluetoothDevices' = Append(bluetoothDevices, lastOp'.msg.data)
       /\ IF lastOp'.op = "message" /\ lastOp'.msg.type = "bluetooth_scan_started"
          THEN bluetoothScanning'
          ELSE IF lastOp'.op = "message" /\ lastOp'.msg.type = "bluetooth_scan_complete"
          THEN ~bluetoothScanning'
          ELSE bluetoothScanning' = bluetoothScanning]_vars

\* during a scan a device has been reported again, under another name, while
\* the list held two devices: the list still holds it once, as first reported
C34_Witness ==
    /\ lastOp.op = "message"
    /\ lastOp.msg.type = "bluetooth_device_found"
    /\ bluetoothScanning
    /\ Len(bluetoothDevices) = 2
    /\ \E i \in DOMAIN bluetoothDevices :
            /\ bluetoothDevices[i].address = lastOp.msg.data.address
            /\ bluetoothDevices[i].name # lastOp.msg.data.name

-----------------------------------------------------------
(* Properties of the intent dispatcher.                                    *)

\* C25: a dispatch takes one route. The step that dispatches REASSIGN or
\* APPLY_CONFIG issues exactly one request (clear-ready, apply-config) and
\* hands nothing to the reducer, so `connected` and `ready` stay as they are;
\* a step that hands an action to the reducer hands it an action of another
\* kind and issues no request; an event decoded from a message is handed to
\* the reducer.
C25_OneRoutePerIntent ==
    [][/\ lastOp'.op = "reassign"
            => /\ requests' = Append(requests, NewRequest("clearReady"))
               /\ lastAction' = NoAction
               /\ UNCHANGED <<connected, ready>>
       /\ lastOp'.op = "apply_config"
            => /\ requests' = Append(requests, NewRequest("applyConfig"))
               /\ lastAction' = NoAction
               /\ UNCHANGED <<connected, ready>>
       /\ lastAction' # NoAction
            => /\ lastAction'.type \notin {"REASSIGN", "APPLY_CONFIG"}
               /\ requests' = requests
       /\ (lastOp'.op = "message" /\ phase = "mounted" /\ Decode(lastOp'.msg) # NoAction)
            => lastAction' = Decode(lastOp'.msg)]_vars

\* both remote intents have been dispatched, REASSIGN last, by a client with
\* controllers in both sets
C25_Witness ==
    /\ lastOp.op = "reassign"
    /\ Len(requests) = 2
    /\ requests[1].kind = "applyConfig"
    /\ requests[2] = NewRequest("clearReady")
    /\ connected # << >>
    /\ ready # << >>
    /\ State = prevState

\* C26: the step in which a REASSIGN or APPLY_CONFIG request fails (network
\* failure, non-OK status, unreadable body) logs the failure and does nothing
\* else: `connected` and `ready` are unchanged, as they were by the dispatch
\* itself, no error is raised, nothing unmounts, nothing is handed to the
\* reducer, and the request has relaunched nothing.
C26_FailureIsOnlyLogged ==
    [][/\ (lastOp'.op = "settle" /\ requests'[lastOp'.sock].status = "rejected")
            => /\ UNCHANGED <<connected, ready>>
               /\ requests'[lastOp'.sock].logged
               /\ requests'[lastOp'.sock].relaunches = 0
               /\ \A i \in DOMAIN requests :
                    i # lastOp'.sock => requests'[i] = requests[i]
               /\ lastAction' = NoAction
               /\ ~renderError'
               /\ phase' = phase
       /\ lastOp'.op \in {"reassign", "apply_config"}
            => /\ UNCHANGED <<connected, ready>>
               /\ ~renderError'
               /\ phase' = phase]_vars

\* an APPLY_CONFIG request of a mounted client with ready controllers has
\* failed on its status after a REASSIGN request had failed on the network
C26_Witness ==
    /\ lastOp.op = "settle"
    /\ phase = "mounted"
    /\ ready # << >>
    /\ Len(requests) = 2
    /\ lastOp.sock = 2
    /\ requests[2].kind = "applyConfig"
    /\ requests[2].outcome = "http_error"
    /\ requests[2].status = "rejected"
    /\ requests[1].kind = "clearReady"
    /\ requests[1].outcome = "network_error"
    /\ requests[1].logged

\* the unique_ids of the entries of a list
IdsOf(list) == {UniqueId(list[i]) : i \in DOMAIN list}

\* the orders in which the device service can emit one controller_unready
\* event for each of these controllers
Orders(ids) ==
    {o \in [1..Cardinality(ids) -> ids] : \A i, j \in DOMAIN o : o[i] = o[j] => i = j}

\* the state after the controller_unready events of an order have been applied
RECURSIVE UnreadyAll(_, _)
UnreadyAll(state, order) ==
    IF order = << >>
    THEN state
    ELSE UnreadyAll(controllerReducer(state, [type |-> "CONTROLLER_UNREADY",
                                               unique_id |-> Head(order)]),
                    Tail(order))

\* C33: when REASSIGN has been dispatched, applying one controller_unready
\* event for every controller that is in `ready`, in whichever order the
\* device service emits them, leaves `ready` empty and each of those
\* controllers in `connected` exactly once, without a slot_index.
C33_ReassignEmptiesReady ==
    lastOp.op = "reassign"
        => \A order \in Orders(IdsOf(ready)) :
                LET after == UnreadyAll(State, order)
                IN  /\ after.ready = << >>
                    /\ \A id \in IdsOf(ready) :
                            /\ CountId(after.connected, id) = 1
                            /\ "slot_index" \notin DOMAIN FindId(after.connected, id)

\* C6: a request whose handlers have invoked the relaunch capability is an
\* apply-configuration request that has been acknowledged successfully: no
\* relaunch while it is pending or after it failed.
C6_RelaunchOnlyAfterAck ==
    \A i \in DOMAIN requests :
        requests[i].relaunches > 0
            => /\ requests[i].kind = "applyConfig"
               /\ requests[i].status = "resolved"
               /\ requests[i].outcome = "ok"

\* an apply-configuration request has relaunched while another request is
\* still pending
C6_Witness ==
    \E i, j \in DOMAIN requests :
        /\ requests[i].relaunches > 0
        /\ requests[j].kind = "applyConfig"
        /\ requests[j].status = "pending"

\* C7: an APPLY_CONFIG whose request resolved has relaunched exactly once,
\* one whose request rejected (network failure, non-OK status) not at all.
C7_RelaunchOnceOrNever ==
    \A i \in DOMAIN requests :
        requests[i].kind = "applyConfig"
            => /\ requests[i].outcome = "ok" => requests[i].relaunches = 1
               /\ requests[i].outcome \in {"http_error", "network_error", "bad_body"}
                    => requests[i].relaunches = 0

\* one APPLY_CONFIG has succeeded and another one has failed on its status
C7_Witness ==
    \E i, j \in DOMAIN requests :
        /\ requests[i].kind = "applyConfig" /\ requests[i].outcome = "ok"
        /\ requests[j].kind = "applyConfig" /\ requests[j].outcome = "http_error"

\* C8: once the component is torn down, the completion of a request that was
\* in flight invokes no relaunch and changes neither `connected` nor `ready`.
C8_NoEffectAfterTeardown ==
    [][(phase = "unmounted" /\ lastOp'.op = "settle")
        => (/\ \A i \in DOMAIN requests :
                    requests'[i].relaunches = requests[i].relaunches
            /\ UNCHANGED <<connected, ready>>)]_vars

====
